---- MODULE Spec2Model ----
(***************************************************************************)
(* Model of the quack mutating admission hook (package quack, as it is     *)
(* built into cmd/quack): AdmissionHook.Admit and the functions it calls.  *)
(*                                                                         *)
(* Go strings are sequences of tokens.  A token is a piece of text that    *)
(* holds none of the characters the code looks at; the characters the code *)
(* does look at ("/", "~", "0", "1", the delimiters, the trim markers, the *)
(* white space and the characters html/template escapes) are tokens of     *)
(* their own, so that prefix tests, replacements and escaping work on the  *)
(* model's strings the way the Go functions work on bytes.                 *)
(***************************************************************************)
EXTENDS Integers, Sequences, FiniteSets, TLC

\* The largest number of annotations an object of the model carries.
MaxAnnotations == 3

-----------------------------------------------------------------------------
(* Strings *)

\* strings.HasPrefix
HasPrefix(s, p) ==
    /\ Len(s) >= Len(p)
    /\ SubSeq(s, 1, Len(p)) = p

\* strings.Replace(annotation, "/", "~1", -1)
RECURSIVE ReplaceSlash(_)
ReplaceSlash(s) ==
    IF s = <<>> THEN <<>>
    ELSE (IF Head(s) = "/" THEN <<"~", "1">> ELSE <<Head(s)>>) \o ReplaceSlash(Tail(s))

\* jsonpatch's rfc6901 encoder: "~" becomes "~0" and "/" becomes "~1".
RECURSIVE rfc6901Encode(_)
rfc6901Encode(s) ==
    IF s = <<>> THEN <<>>
    ELSE (CASE Head(s) = "~" -> <<"~", "0">>
            [] Head(s) = "/" -> <<"~", "1">>
            [] OTHER -> <<Head(s)>>) \o rfc6901Encode(Tail(s))

\* json-patch's decodePatchKey: "~1" becomes "/" and "~0" becomes "~",
\* scanning from the left.
RECURSIVE decodePatchKey(_)
decodePatchKey(s) ==
    IF s = <<>> THEN <<>>
    ELSE IF Len(s) >= 2 /\ s[1] = "~" /\ s[2] = "1"
         THEN <<"/">> \o decodePatchKey(SubSeq(s, 3, Len(s)))
    ELSE IF Len(s) >= 2 /\ s[1] = "~" /\ s[2] = "0"
         THEN <<"~">> \o decodePatchKey(SubSeq(s, 3, Len(s)))
    ELSE <<Head(s)>> \o decodePatchKey(Tail(s))

\* fmt.Sprintf(message, args...): the format's text followed by the
\* formatted arguments.
Sprintf(message, args) == message \o args

-----------------------------------------------------------------------------
(* Constants of the package *)

lastAppliedConfigPath ==
    <<"/", "metadata", "/", "annotations", "/",
      "kubectl.kubernetes.io", "~", "1", "last-applied-configuration">>

quackAnnotationPrefix ==
    <<"/", "metadata", "/", "annotations", "/", "quack.pusher.com">>

leftDelimAnnotation == <<"quack.pusher.com", "/", "left-delim">>

rightDelimAnnotation == <<"quack.pusher.com", "/", "right-delim">>

\* The prefix getTemplateInput looks for in annotation keys.
quackKeyPrefix == <<"quack.pusher.com">>

-----------------------------------------------------------------------------
(* The inputs of the model *)

fooAnnotation == <<"quack.pusher.com", "/", "foo">>

\* A key the API server's validation would refuse, which a mutating webhook
\* sees all the same: it holds the two characters "~1".
tildeAnnotation == <<"quack.pusher.com", "/", "a", "~", "1", "b">>

lastAppliedAnnotation ==
    <<"kubectl.kubernetes.io", "/", "last-applied-configuration">>

requiredAnnotationKey == <<"quack-required">>

AnnotationKeys ==
    { leftDelimAnnotation, rightDelimAnnotation, fooAnnotation, tildeAnnotation,
      lastAppliedAnnotation, requiredAnnotationKey }

TemplatedCluster == <<"{{", "- ", ".Cluster", " -", "}}", ".example.com">>

AnnotationValues(k) ==
    CASE k = leftDelimAnnotation -> { <<>>, <<"[[">> }
      [] k = rightDelimAnnotation -> { <<>>, <<"]]">> }
      [] k = fooAnnotation -> { <<"{{", ".Cluster", "}}">> }
      [] k = tildeAnnotation -> { <<"x">> }
      [] k = lastAppliedAnnotation -> { TemplatedCluster }
      [] OTHER -> { <<"true">>, <<>> }

AllAnnotationValues == UNION { AnnotationValues(k) : k \in AnnotationKeys }

AnnotationMaps ==
    UNION { { m \in [S -> AllAnnotationValues] : \A k \in S : m[k] \in AnnotationValues(k) } :
            S \in { T \in SUBSET AnnotationKeys : Cardinality(T) <= MaxAnnotations } }

HostValues ==
    { <<"plain.example.com">>,
      TemplatedCluster,
      <<" ", "[[", "- ", ".Cluster", " -", "]]", " ", ".example.com">>,
      <<"{{", ".Missing", "}}">>,
      <<"{{", "- ", ".Cluster", " -", "}}">>,
      <<"[[", "- ", ".Cluster", " -", "]]">> }

NoStatus == [present |-> FALSE, condition |-> <<>>]

StatusValues ==
    { NoStatus,
      [present |-> TRUE, condition |-> <<"{{", " ", ".Cluster", " ", "}}">>] }

EmptyAnnotations == [k \in {} |-> <<>>]

\* The raw object of a request: bytes that are no JSON object, or a manifest
\* with metadata.annotations, a string field host and an optional status.
BadRaw == [kind |-> "bad", ann |-> EmptyAnnotations, host |-> <<>>, status |-> NoStatus]

Manifests ==
    [kind : {"doc"}, ann : AnnotationMaps, host : HostValues, status : StatusValues]

RawObjects == Manifests \cup {BadRaw}

Operations == {"CREATE", "UPDATE", "DELETE", "CONNECT"}

\* The ConfigMap's Data as getValues can find it.
ValuesMaps ==
    { [n \in {"Cluster"} |-> <<"alpha">>],
      [n \in {"Cluster"} |-> <<"a", "<", "b">>] }

NoValues == [n \in {} |-> <<>>]

-----------------------------------------------------------------------------
(* Reading the object's metadata *)

\* No bytes at all: a nil []byte, or the bytes of an empty buffer.
NilBytes == [kind |-> "nil", ann |-> EmptyAnnotations, host |-> <<>>, status |-> NoStatus]

\* A nil error is the empty text; every error carries some text.
NoError == <<>>

\* getObjectMeta: json.Unmarshal of the raw bytes into the object's metadata.
getObjectMeta(raw) ==
    IF raw.kind = "doc"
    THEN [annotations |-> raw.ann, err |-> NoError]
    ELSE [annotations |-> EmptyAnnotations,
          err |-> <<"failed to unmarshal input: ", "invalid character">>]

requestHasAnnotation_AlwaysTrue(requiredAnnotation, raw) ==
    [present |-> TRUE, err |-> NoError]

requestHasAnnotation_NonEmptyValue(requiredAnnotation, raw) ==
    IF requiredAnnotation = <<>>
    THEN [present |-> TRUE, err |-> NoError]
    ELSE LET objectMeta == getObjectMeta(raw) IN
         IF objectMeta.err # NoError
         THEN [present |-> FALSE,
               err |-> <<"error reading object metadata: ">> \o objectMeta.err]
         ELSE [present |-> /\ requiredAnnotation \in DOMAIN objectMeta.annotations
                           /\ objectMeta.annotations[requiredAnnotation] # <<>>,
               err |-> NoError]

requestHasAnnotation(requiredAnnotation, raw) ==
    IF requiredAnnotation = <<>>
    THEN [present |-> TRUE, err |-> NoError]
    ELSE LET objectMeta == getObjectMeta(raw) IN
         IF objectMeta.err # NoError
         THEN [present |-> FALSE,
               err |-> <<"error reading object metadata: ">> \o objectMeta.err]
         ELSE [present |-> requiredAnnotation \in DOMAIN objectMeta.annotations,
               err |-> NoError]

\* delimiters{}: the zero pair, which html/template reads as its defaults.
ZeroDelims == [left |-> <<>>, right |-> <<>>]

getDelims_NoPairCheck(raw) ==
    LET requestMeta == getObjectMeta(raw)
        ann == requestMeta.annotations
        lOk == leftDelimAnnotation \in DOMAIN ann
        rOk == rightDelimAnnotation \in DOMAIN ann
    IN  IF requestMeta.err # NoError
        THEN [delims |-> ZeroDelims, err |-> <<"failed ot unmarshal input: ">> \o requestMeta.err]
        ELSE IF lOk /\ rOk /\ ann[leftDelimAnnotation] # <<>> /\ ann[rightDelimAnnotation] # <<>>
        THEN [delims |-> [left |-> ann[leftDelimAnnotation], right |-> ann[rightDelimAnnotation]],
              err |-> NoError]
        ELSE [delims |-> ZeroDelims, err |-> NoError]

getDelims_NoEmptyCheck(raw) ==
    LET requestMeta == getObjectMeta(raw)
        ann == requestMeta.annotations
        lOk == leftDelimAnnotation \in DOMAIN ann
        rOk == rightDelimAnnotation \in DOMAIN ann
    IN  IF requestMeta.err # NoError
        THEN [delims |-> ZeroDelims, err |-> <<"failed ot unmarshal input: ">> \o requestMeta.err]
        ELSE IF lOk # rOk
        THEN [delims |-> ZeroDelims,
              err |-> <<"must set either both left-delim and right-delim, or neither">>]
        ELSE IF lOk = FALSE
        THEN [delims |-> ZeroDelims, err |-> NoError]
        ELSE [delims |-> [left |-> ann[leftDelimAnnotation], right |-> ann[rightDelimAnnotation]],
              err |-> NoError]

getDelims(raw) ==
    LET requestMeta == getObjectMeta(raw)
        ann == requestMeta.annotations
        lOk == leftDelimAnnotation \in DOMAIN ann
        rOk == rightDelimAnnotation \in DOMAIN ann
    IN  IF requestMeta.err # NoError
        THEN [delims |-> ZeroDelims, err |-> <<"failed ot unmarshal input: ">> \o requestMeta.err]
        ELSE IF lOk # rOk
        THEN [delims |-> ZeroDelims,
              err |-> <<"must set either both left-delim and right-delim, or neither">>]
        ELSE IF lOk = FALSE
        THEN [delims |-> ZeroDelims, err |-> NoError]
        ELSE IF ann[leftDelimAnnotation] = <<>> \/ ann[rightDelimAnnotation] = <<>>
        THEN [delims |-> ZeroDelims, err |-> <<"delimiters must not be empty">>]
        ELSE [delims |-> [left |-> ann[leftDelimAnnotation], right |-> ann[rightDelimAnnotation]],
              err |-> NoError]

-----------------------------------------------------------------------------
(* The template input *)

\* The path of the remove operation getTemplateInput writes for an annotation.
removePath(annotation) ==
    <<"/", "metadata", "/", "annotations", "/">> \o ReplaceSlash(annotation)

\* applyPatch with a patch of one remove operation at path: json-patch
\* splits the path at "/", decodes each part and removes the key it finds;
\* a key that is not there is an error.
applyPatch(data, path) ==
    LET part == SubSeq(path, 6, Len(path))
        key == decodePatchKey(part)
    IN  IF /\ HasPrefix(path, <<"/", "metadata", "/", "annotations", "/">>)
           /\ \A i \in 1..Len(part) : part[i] # "/"
           /\ data.kind = "doc"
           /\ key \in DOMAIN data.ann
        THEN [data |-> [data EXCEPT !.ann = [k \in (DOMAIN data.ann) \ {key} |-> data.ann[k]]],
              err |-> NoError]
        ELSE [data |-> NilBytes,
              err |-> <<"unable to apply patch: ", "Unable to remove nonexistent key">>]

\* The loop of getTemplateInput over the annotations, in the order the map
\* iteration happens to take (order), from its i-th key on.
RECURSIVE templateInputLoop(_, _, _, _)
templateInputLoop(data, order, i, patchedData) ==
    IF i > Len(order)
    THEN [data |-> patchedData, err |-> NoError]
    ELSE IF HasPrefix(order[i], quackKeyPrefix)
    THEN LET r == applyPatch(data, removePath(order[i])) IN
         IF r.err # NoError
         THEN [data |-> NilBytes,
               err |-> <<"error removing annotation ">> \o order[i] \o <<": ">> \o r.err]
         ELSE templateInputLoop(data, order, i + 1, r.data)
    ELSE templateInputLoop(data, order, i + 1, patchedData)

getTemplateInput(data, order) ==
    LET objectMeta == getObjectMeta(data) IN
    IF objectMeta.err # NoError
    THEN [data |-> NilBytes, err |-> <<"error reading object metadata: ">> \o objectMeta.err]
    ELSE templateInputLoop(data, order, 1, NilBytes)

\* The orders in which a range over a map with the keys S can visit them.
Orders(S) ==
    { o \in [1..Cardinality(S) -> S] : \A i, j \in 1..Cardinality(S) : i # j => o[i] # o[j] }

-----------------------------------------------------------------------------
(* renderTemplate: html/template over the bytes of the template input *)

\* Delims("", ""): an empty delimiter stands for the default one.
leftDelimOf(delims) == IF delims.left = <<>> THEN <<"{{">> ELSE delims.left

rightDelimOf(delims) == IF delims.right = <<>> THEN <<"}}">> ELSE delims.right

\* strings.Index, counting from 1; 0 when d does not occur in s.
RECURSIVE Index(_, _)
Index(s, d) ==
    IF Len(s) < Len(d) THEN 0
    ELSE IF HasPrefix(s, d) THEN 1
    ELSE LET r == Index(Tail(s), d) IN IF r = 0 THEN 0 ELSE r + 1

RECURSIVE TrimLeftSpace(_)
TrimLeftSpace(s) ==
    IF s # <<>> /\ Head(s) = " " THEN TrimLeftSpace(Tail(s)) ELSE s

RECURSIVE TrimRightSpace(_)
TrimRightSpace(s) ==
    IF s # <<>> /\ s[Len(s)] = " " THEN TrimRightSpace(SubSeq(s, 1, Len(s) - 1)) ELSE s

\* The fields an action of the model can name, and the map key each looks up.
FieldTokens == {".Cluster", ".Missing", ".Condition"}

fieldName(tok) ==
    CASE tok = ".Cluster" -> "Cluster"
      [] tok = ".Missing" -> "Missing"
      [] OTHER -> "Condition"

\* The words of an action: the lexer skips the spaces between them.
RECURSIVE actionWords(_)
actionWords(s) ==
    IF s = <<>> THEN <<>>
    ELSE (IF Head(s) = " " THEN <<>> ELSE <<Head(s)>>) \o actionWords(Tail(s))

\* html/template's escaper for a value written into HTML text.
RECURSIVE htmlEscape(_)
htmlEscape(s) ==
    IF s = <<>> THEN <<>>
    ELSE (CASE Head(s) = "<" -> <<"&lt;">>
            [] Head(s) = ">" -> <<"&gt;">>
            [] Head(s) = "&" -> <<"&amp;">>
            [] Head(s) = "'" -> <<"&#39;">>
            [] Head(s) = "\"" -> <<"&#34;">>
            [] Head(s) = "+" -> <<"&#43;">>
            [] OTHER -> <<Head(s)>>) \o htmlEscape(Tail(s))

\* A field of the values map: map[string]string gives "" for a missing key.
evalField(values, name) ==
    IF name \in DOMAIN values THEN values[name] ELSE <<>>

\* Parse and Execute over one stretch of text: the text up to the next left
\* delimiter is copied, the action up to the right delimiter is evaluated,
\* the trim markers "- " and " -" cut the white space next to the action.
\* A left delimiter with no right delimiter after it, and an action that is
\* no single field, fail the parse.
RECURSIVE renderText(_, _, _, _)
renderText(s, values, left, right) ==
    LET i == Index(s, left) IN
    IF i = 0 THEN [out |-> s, err |-> NoError]
    ELSE
      LET before == SubSeq(s, 1, i - 1)
          after == SubSeq(s, i + Len(left), Len(s))
          leftTrim == after # <<>> /\ Head(after) = "- "
          inside == IF leftTrim THEN Tail(after) ELSE after
          j == Index(inside, right)
      IN
      IF j = 0 THEN [out |-> <<>>, err |-> <<"failed to parse template: ", "unclosed action">>]
      ELSE
        LET action0 == SubSeq(inside, 1, j - 1)
            rightTrim == action0 # <<>> /\ action0[Len(action0)] = " -"
            action == actionWords(IF rightTrim THEN SubSeq(action0, 1, Len(action0) - 1)
                                  ELSE action0)
            rest0 == SubSeq(inside, j + Len(right), Len(inside))
            rest == IF rightTrim THEN TrimLeftSpace(rest0) ELSE rest0
            text == IF leftTrim THEN TrimRightSpace(before) ELSE before
        IN
        IF Len(action) # 1 \/ action[1] \notin FieldTokens
        THEN [out |-> <<>>, err |-> <<"failed to parse template: ", "unexpected token">>]
        ELSE LET r == renderText(rest, values, left, right) IN
             IF r.err # NoError THEN r
             ELSE [out |-> text \o htmlEscape(evalField(values, fieldName(action[1]))) \o r.out,
                   err |-> NoError]

\* renderTemplate over the bytes of a manifest: every string of the manifest
\* is a stretch of its text (the model's keys hold no delimiter, and its
\* actions do not reach over the quotes that end a string: a left delimiter
\* left open inside a string runs into the JSON after it, which is no
\* action).  No bytes render to no bytes.
renderTemplate(input, values, delims) ==
    IF input.kind # "doc" THEN [out |-> NilBytes, err |-> NoError]
    ELSE
      LET left == leftDelimOf(delims)
          right == rightDelimOf(delims)
          ann == [k \in DOMAIN input.ann |-> renderText(input.ann[k], values, left, right)]
          host == renderText(input.host, values, left, right)
          cond == renderText(input.status.condition, values, left, right)
          errs == { ann[k].err : k \in DOMAIN input.ann } \cup {host.err, cond.err}
      IN
      IF errs # {NoError}
      THEN [out |-> NilBytes, err |-> CHOOSE e \in errs : e # NoError]
      ELSE [out |-> [kind |-> "doc",
                     ann |-> [k \in DOMAIN input.ann |-> ann[k].out],
                     host |-> host.out,
                     status |-> [present |-> input.status.present, condition |-> cond.out]],
            err |-> NoError]

-----------------------------------------------------------------------------
(* createPatch: jsonpatch.CreatePatch and the filter over its operations *)

NewPatch(op, path, value) == [op |-> op, path |-> path, value |-> value]

\* jsonpatch's makePath
makePath(path, key) == path \o <<"/">> \o rfc6901Encode(key)

annotationsPath == makePath(makePath(<<>>, <<"metadata">>), <<"annotations">>)

\* diff's first loop over the annotations of b, in the order of the map
\* iteration: an add for a new key, a replace for a changed value.
RECURSIVE diffAnnotationsNew(_, _, _, _)
diffAnnotationsNew(a, b, order, i) ==
    IF i > Len(order) THEN <<>>
    ELSE LET key == order[i]
             p == makePath(annotationsPath, key)
             here == IF key \notin DOMAIN b THEN <<>>
                     ELSE IF key \notin DOMAIN a THEN <<NewPatch("add", p, b[key])>>
                     ELSE IF a[key] # b[key] THEN <<NewPatch("replace", p, b[key])>>
                     ELSE <<>>
         IN here \o diffAnnotationsNew(a, b, order, i + 1)

\* diff's second loop, over the annotations of a: a remove for a key b lacks.
RECURSIVE diffAnnotationsGone(_, _, _, _)
diffAnnotationsGone(a, b, order, i) ==
    IF i > Len(order) THEN <<>>
    ELSE LET key == order[i]
             here == IF key \in DOMAIN a /\ key \notin DOMAIN b
                     THEN <<NewPatch("remove", makePath(annotationsPath, key), <<>>)>>
                     ELSE <<>>
         IN here \o diffAnnotationsGone(a, b, order, i + 1)

\* diff for the key named by top of the two documents.
diffTopKey(a, b, top, annOrder) ==
    CASE top = "metadata" ->
           diffAnnotationsNew(a.ann, b.ann, annOrder, 1)
             \o diffAnnotationsGone(a.ann, b.ann, annOrder, 1)
      [] top = "host" ->
           IF a.host # b.host
           THEN <<NewPatch("replace", makePath(<<>>, <<"host">>), b.host)>>
           ELSE <<>>
      [] OTHER ->
           IF ~b.status.present THEN <<>>
           ELSE IF ~a.status.present
           THEN <<NewPatch("add", makePath(<<>>, <<"status">>), b.status.condition)>>
           ELSE IF a.status.condition # b.status.condition
           THEN <<NewPatch("replace",
                           makePath(makePath(<<>>, <<"status">>), <<"condition">>),
                           b.status.condition)>>
           ELSE <<>>

TopKeys == {"metadata", "host", "status"}

\* jsonpatch.CreatePatch: both documents must be JSON objects; the keys of
\* each map are visited in the order of Go's map iteration.
CreatePatch(a, b, topOrder, annOrder) ==
    IF a.kind # "doc" \/ b.kind # "doc"
    THEN [patch |-> <<>>, err |-> <<"Invalid JSON Document">>]
    ELSE [patch |-> diffTopKey(a, b, topOrder[1], annOrder)
                      \o diffTopKey(a, b, topOrder[2], annOrder)
                      \o diffTopKey(a, b, topOrder[3], annOrder)
                      \o (IF a.status.present /\ ~b.status.present
                          THEN <<NewPatch("remove", makePath(<<>>, <<"status">>), <<>>)>>
                          ELSE <<>>),
          err |-> NoError]

\* The test of createPatch's loop for an operation it drops.
droppedPath_LastAppliedOnly(path) == path = lastAppliedConfigPath

droppedPath(path) ==
    path = lastAppliedConfigPath \/ HasPrefix(path, quackAnnotationPrefix)

RECURSIVE allowedOps_KeptFirstLast(_)
allowedOps_KeptFirstLast(patch) ==
    IF patch = <<>> THEN <<>>
    ELSE allowedOps_KeptFirstLast(Tail(patch))
           \o (IF droppedPath(Head(patch).path) THEN <<>> ELSE <<Head(patch)>>)

RECURSIVE allowedOps(_)
allowedOps(patch) ==
    IF patch = <<>> THEN <<>>
    ELSE (IF droppedPath(Head(patch).path) THEN <<>> ELSE <<Head(patch)>>)
           \o allowedOps(Tail(patch))

\* createPatch: patchBytes is the JSON array of the operations kept ("[]"
\* when none is).
createPatch(old, new, topOrder, annOrder) ==
    LET r == CreatePatch(old, new, topOrder, annOrder) IN
    IF r.err # NoError
    THEN [patch |-> <<>>, patchBytes |-> <<>>,
          err |-> <<"error calculating patch: ">> \o r.err]
    ELSE [patch |-> r.patch, patchBytes |-> allowedOps(r.patch), err |-> NoError]

-----------------------------------------------------------------------------
(* The admission hook *)

VARIABLES
    hook,           \* the AdmissionHook: its RequiredAnnotation
    req,            \* the AdmissionRequest in hand: Operation and Object.Raw
    pc,             \* where Admit stands with it
    annototationPresent,  \* Admit's annototationPresent
    values,         \* Admit's values
    delims,         \* Admit's delims
    templateInput,  \* Admit's templateInput
    output,         \* Admit's output
    patch,          \* createPatch's patch, the operations of the diff
    patchBytes,     \* Admit's patchBytes
    failed,         \* the call whose err was not nil, "" while there is none
    resp,           \* the AdmissionResponse
    previous,       \* the values and the response of the call the server made
                    \* before it called Admit again with the same request
    other           \* a second call of Admit, under way on another goroutine while
                    \* the first one runs: its request, position and variables

vars ==
    <<hook, req, pc, annototationPresent, values, delims, templateInput, output, patch,
      patchBytes, failed, resp, previous, other>>

NoResult == [set |-> FALSE, message |-> <<>>]

\* resp := &admissionv1beta1.AdmissionResponse{}
NewResponse == [allowed |-> FALSE, patch |-> <<>>, patchType |-> "", result |-> NoResult]

errorResponse_Allows(r, message, args) ==
    [r EXCEPT !.allowed = TRUE,
              !.result = [set |-> TRUE, message |-> Sprintf(message, args)]]

errorResponse(r, message, args) ==
    [r EXCEPT !.allowed = FALSE,
              !.result = [set |-> TRUE, message |-> Sprintf(message, args)]]

\* No call came before this one.
NoPrevious == [set |-> FALSE, values |-> NoValues, resp |-> NewResponse]

\* A call of Admit that has not begun.
NoCall ==
    [req |-> [operation |-> "CONNECT", raw |-> BadRaw], pc |-> "Idle",
     annototationPresent |-> FALSE, values |-> NoValues, delims |-> ZeroDelims,
     templateInput |-> NilBytes, output |-> NilBytes, patch |-> <<>>,
     patchBytes |-> <<>>, failed |-> "", resp |-> NewResponse]

IsCreateOrUpdate(operation) == operation \in {"CREATE", "UPDATE"}

Init ==
    /\ hook \in [RequiredAnnotation : {<<>>, requiredAnnotationKey}]
    /\ req = [operation |-> "CONNECT", raw |-> BadRaw]
    /\ pc = "Idle"
    /\ annototationPresent = FALSE
    /\ previous = NoPrevious
    /\ other = NoCall
    /\ values = NoValues
    /\ delims = ZeroDelims
    /\ templateInput = NilBytes
    /\ output = NilBytes
    /\ patch = <<>>
    /\ patchBytes = <<>>
    /\ failed = ""
    /\ resp = NewResponse

\* The admission server calls Admit with a request: Admit makes its response.
Receive(operation, raw) ==
    /\ pc = "Idle"
    /\ req' = [operation |-> operation, raw |-> raw]
    /\ pc' = "Received"
    /\ UNCHANGED <<hook, previous, other, annototationPresent, values, delims, templateInput, output, patch, patchBytes, failed, resp>>

Fail_NoReturn(call, message, err) ==
    /\ failed' = call
    /\ resp' = errorResponse(resp, message, err)
    /\ pc' = pc

\* One of Admit's calls returned err: errorResponse, and Admit returns.
Fail(call, message, err) ==
    /\ failed' = call
    /\ resp' = errorResponse(resp, message, err)
    /\ pc' = "Responded"

\* Admit returns resp with Allowed set and nothing else.
Skip ==
    /\ resp' = [resp EXCEPT !.allowed = TRUE]
    /\ pc' = "Responded"
    /\ UNCHANGED failed

\* Skip operations that aren't create or update.
FilterOperation ==
    /\ pc = "Received"
    /\ IF ~IsCreateOrUpdate(req.operation)
       THEN Skip
       ELSE pc' = "Filtered" /\ UNCHANGED <<resp, failed>>
    /\ UNCHANGED <<hook, previous, other, annototationPresent, req, values, delims, templateInput, output, patch, patchBytes>>

\* Skip requests that do not have the required annotation.
GateAnnotation ==
    /\ pc = "Filtered"
    /\ LET r == requestHasAnnotation(hook.RequiredAnnotation, req.raw) IN
       IF r.err # NoError
       THEN Fail("requestHasAnnotation", <<"Failed to read annotations: ">>, r.err)
       ELSE IF ~r.present
       THEN Skip
       ELSE pc' = "Gated" /\ UNCHANGED <<resp, failed>>
    /\ annototationPresent' = requestHasAnnotation(hook.RequiredAnnotation, req.raw).present
    /\ UNCHANGED <<hook, previous, other, req, values, delims, templateInput, output, patch, patchBytes>>

\* getValues: the ConfigMap is read from the cluster, or the read fails.
LoadValues ==
    /\ pc = "Gated"
    /\ \/ /\ Fail("getValues", <<"Failed to get template values: ">>,
                  <<"couldn't get configmap: ", "not found">>)
          /\ UNCHANGED values
       \/ \E data \in ValuesMaps :
            /\ values' = data
            /\ pc' = "Valued"
            /\ UNCHANGED <<resp, failed>>
    /\ UNCHANGED <<hook, previous, other, annototationPresent, req, delims, templateInput, output, patch, patchBytes>>

ResolveDelims ==
    /\ pc = "Valued"
    /\ LET r == getDelims(req.raw) IN
       /\ delims' = r.delims
       /\ IF r.err # NoError
          THEN Fail("getDelims", <<"Invalid delimiters: ">>, r.err)
          ELSE pc' = "Delimited" /\ UNCHANGED <<resp, failed>>
    /\ UNCHANGED <<hook, previous, other, annototationPresent, req, values, templateInput, output, patch, patchBytes>>

\* getTemplateInput; the range over the annotations takes some order.
Sanitize ==
    /\ pc = "Delimited"
    /\ \E order \in Orders(DOMAIN req.raw.ann) :
         LET r == getTemplateInput(req.raw, order) IN
         IF r.err # NoError
         THEN Fail("getTemplateInput", <<>>, <<>>) /\ UNCHANGED templateInput
         ELSE templateInput' = r.data /\ pc' = "Sanitized" /\ UNCHANGED <<resp, failed>>
    /\ UNCHANGED <<hook, previous, other, annototationPresent, req, values, delims, output, patch, patchBytes>>

Render ==
    /\ pc = "Sanitized"
    /\ LET r == renderTemplate(templateInput, values, delims) IN
       IF r.err # NoError
       THEN Fail("renderTemplate", <<"Error rendering template: ">>, r.err) /\ UNCHANGED output
       ELSE output' = r.out /\ pc' = "Rendered" /\ UNCHANGED <<resp, failed>>
    /\ UNCHANGED <<hook, previous, other, annototationPresent, req, values, delims, templateInput, patch, patchBytes>>

\* createPatch; the ranges of the diff over the maps take some orders.
Diff ==
    /\ pc = "Rendered"
    /\ \E topOrder \in Orders(TopKeys) :
       \E annOrder \in Orders(DOMAIN req.raw.ann \cup DOMAIN output.ann) :
         LET r == createPatch(req.raw, output, topOrder, annOrder) IN
         IF r.err # NoError
         THEN Fail("createPatch", <<"Error creating patch: ">>, r.err)
              /\ UNCHANGED <<patch, patchBytes>>
         ELSE /\ patch' = r.patch
              /\ patchBytes' = r.patchBytes
              /\ pc' = "Diffed"
              /\ UNCHANGED <<resp, failed>>
    /\ UNCHANGED <<hook, previous, other, annototationPresent, req, values, delims, templateInput, output>>

\* If the patch is non-zero, append it; the request is allowed.
Respond ==
    /\ pc = "Diffed"
    /\ resp' = IF patchBytes # <<>>
               THEN [resp EXCEPT !.patch = patchBytes, !.patchType = "JSONPatch",
                                 !.allowed = TRUE]
               ELSE [resp EXCEPT !.allowed = TRUE]
    /\ pc' = "Responded"
    /\ UNCHANGED <<hook, previous, other, annototationPresent, req, values, delims, templateInput, output, patch, patchBytes, failed>>

\* Admit has returned resp to the admission server: the request, the response
\* and Admit's variables are gone, and the hook waits for the next request.
Return ==
    /\ pc = "Responded"
    /\ req' = [operation |-> "CONNECT", raw |-> BadRaw]
    /\ pc' = "Idle"
    /\ annototationPresent' = FALSE
    /\ previous' = NoPrevious
    /\ values' = NoValues
    /\ delims' = ZeroDelims
    /\ templateInput' = NilBytes
    /\ output' = NilBytes
    /\ patch' = <<>>
    /\ patchBytes' = <<>>
    /\ failed' = ""
    /\ resp' = NewResponse
    /\ UNCHANGED <<hook, other>>

Next ==
    \/ pc = "Idle" /\ \E operation \in Operations, raw \in RawObjects : Receive(operation, raw)
    \/ FilterOperation
    \/ GateAnnotation
    \/ LoadValues
    \/ ResolveDelims
    \/ Sanitize
    \/ Render
    \/ Diff
    \/ Respond
    \/ Return

Spec == Init /\ [][Next]_vars

\* The steps of Admit between its call and its return.
Step ==
    \/ FilterOperation
    \/ GateAnnotation
    \/ LoadValues
    \/ ResolveDelims
    \/ Sanitize
    \/ Render
    \/ Diff
    \/ Respond

\* Where Admit stands between its call and its return.
StepPcs ==
    {"Received", "Filtered", "Gated", "Valued", "Delimited", "Sanitized", "Rendered", "Diffed"}

\* Admit is straight-line code: a call that has begun goes on to its return.
\* This is weak fairness of Step, with ENABLED <<Step>>_vars written out:
\* Admit can take a step exactly where it stands at one of StepPcs.
LiveSpec == Spec /\ (<>[](pc \in StepPcs) => []<><<Step>>_vars)

\* The admission server calls Admit once more with the request it has just
\* had answered, and keeps the answer it had.
Retry ==
    /\ pc = "Responded"
    /\ ~previous.set
    /\ previous' = [set |-> TRUE, values |-> values, resp |-> resp]
    /\ pc' = "Received"
    /\ annototationPresent' = FALSE
    /\ values' = NoValues
    /\ delims' = ZeroDelims
    /\ templateInput' = NilBytes
    /\ output' = NilBytes
    /\ patch' = <<>>
    /\ patchBytes' = <<>>
    /\ failed' = ""
    /\ resp' = NewResponse
    /\ UNCHANGED <<hook, req, other>>

RetryNext == Next \/ Retry

RetrySpec == Init /\ [][RetryNext]_vars

\* The call that runs, with its variables.
RunningCall ==
    [req |-> req, pc |-> pc, annototationPresent |-> annototationPresent,
     values |-> values, delims |-> delims, templateInput |-> templateInput,
     output |-> output, patch |-> patch, patchBytes |-> patchBytes,
     failed |-> failed, resp |-> resp]

Switch_SharedResponse ==
    /\ other' = RunningCall
    /\ req' = other.req
    /\ pc' = other.pc
    /\ annototationPresent' = other.annototationPresent
    /\ values' = other.values
    /\ delims' = other.delims
    /\ templateInput' = other.templateInput
    /\ output' = other.output
    /\ patch' = other.patch
    /\ patchBytes' = other.patchBytes
    /\ failed' = other.failed
    /\ UNCHANGED <<hook, previous, resp>>

\* The admission server calls Admit on a goroutine of its own for each
\* request: the scheduler takes the call that runs off the processor, its
\* variables with it, and lets the other call run. The hook is the one
\* thing the two calls have in common.
Switch ==
    /\ other' = RunningCall
    /\ req' = other.req
    /\ pc' = other.pc
    /\ annototationPresent' = other.annototationPresent
    /\ values' = other.values
    /\ delims' = other.delims
    /\ templateInput' = other.templateInput
    /\ output' = other.output
    /\ patch' = other.patch
    /\ patchBytes' = other.patchBytes
    /\ failed' = other.failed
    /\ resp' = other.resp
    /\ UNCHANGED <<hook, previous>>

\* The requests of the two calls.
ConcOperations == {"CREATE", "DELETE"}

ConcObjects ==
    { BadRaw,
      [kind |-> "doc",
       ann |-> [k \in {leftDelimAnnotation, rightDelimAnnotation} |->
                  IF k = leftDelimAnnotation THEN <<"[[">> ELSE <<"]]">>],
       host |-> <<"[[", "- ", ".Cluster", " -", "]]">>,
       status |-> NoStatus],
      [kind |-> "doc",
       ann |-> [k \in {fooAnnotation} |-> <<"{{", ".Cluster", "}}">>],
       host |-> TemplatedCluster,
       status |-> [present |-> TRUE, condition |-> <<"{{", " ", ".Cluster", " ", "}}">>]],
      [kind |-> "doc",
       ann |-> [k \in {requiredAnnotationKey} |-> <<"true">>],
       host |-> <<"plain.example.com">>,
       status |-> NoStatus] }

ConcReceive ==
    /\ pc = "Idle"
    /\ \E operation \in ConcOperations, raw \in ConcObjects : Receive(operation, raw)

ConcNext ==
    \/ ConcReceive
    \/ FilterOperation
    \/ GateAnnotation
    \/ LoadValues
    \/ ResolveDelims
    \/ Sanitize
    \/ Render
    \/ Diff
    \/ Respond
    \/ Return
    \/ Switch

ConcSpec == Init /\ [][ConcNext]_vars

\* Admit from getTemplateInput on, as a function: the responses it can
\* return for an object, values and delimiters, one for each order the
\* ranges over the maps can take.
AdmitTemplated(raw, data, d) ==
    UNION { LET t == getTemplateInput(raw, order) IN
            IF t.err # NoError
            THEN { errorResponse(NewResponse, <<>>, <<>>) }
            ELSE LET r == renderTemplate(t.data, data, d) IN
                 IF r.err # NoError
                 THEN { errorResponse(NewResponse, <<"Error rendering template: ">>, r.err) }
                 ELSE UNION { { LET p == createPatch(raw, r.out, topOrder, annOrder) IN
                                IF p.err # NoError
                                THEN errorResponse(NewResponse, <<"Error creating patch: ">>, p.err)
                                ELSE IF p.patchBytes # <<>>
                                THEN [NewResponse EXCEPT !.patch = p.patchBytes,
                                                         !.patchType = "JSONPatch",
                                                         !.allowed = TRUE]
                                ELSE [NewResponse EXCEPT !.allowed = TRUE]
                                : annOrder \in Orders(DOMAIN raw.ann \cup DOMAIN r.out.ann) }
                              : topOrder \in Orders(TopKeys) }
            : order \in Orders(DOMAIN raw.ann) }

\* Admit as a function of its request and of what getValues returns
\* (NoValues when it returns an error): the responses of a call.
Admit(ah, operation, raw, data) ==
    IF ~IsCreateOrUpdate(operation)
    THEN { [NewResponse EXCEPT !.allowed = TRUE] }
    ELSE LET has == requestHasAnnotation(ah.RequiredAnnotation, raw) IN
    IF has.err # NoError
    THEN { errorResponse(NewResponse, <<"Failed to read annotations: ">>, has.err) }
    ELSE IF ~has.present
    THEN { [NewResponse EXCEPT !.allowed = TRUE] }
    ELSE IF data = NoValues
    THEN { errorResponse(NewResponse, <<"Failed to get template values: ">>,
                         <<"couldn't get configmap: ", "not found">>) }
    ELSE LET d == getDelims(raw) IN
    IF d.err # NoError
    THEN { errorResponse(NewResponse, <<"Invalid delimiters: ">>, d.err) }
    ELSE AdmitTemplated(raw, data, d.delims)

-----------------------------------------------------------------------------
(* What the claims speak of *)

\* The annotation keys of a document under the reserved prefix.
ReservedKeys(doc) == { k \in DOMAIN doc.ann : HasPrefix(k, <<"quack.pusher.com">>) }

\* The request is created or updated and passes the annotation gate.
PassesGate ==
    /\ req.operation \in {"CREATE", "UPDATE"}
    /\ \/ hook.RequiredAnnotation = <<>>
       \/ req.raw.kind = "doc" /\ hook.RequiredAnnotation \in DOMAIN req.raw.ann

\* The request is gated out: an operation other than create and update, or
\* a manifest without the required annotation.
GatedOut ==
    \/ req.operation \notin {"CREATE", "UPDATE"}
    \/ /\ hook.RequiredAnnotation # <<>>
       /\ req.raw.kind = "doc"
       /\ hook.RequiredAnnotation \notin DOMAIN req.raw.ann

\* One delimiter annotation without the other, or one of them empty.
DelimsInvalid ==
    /\ req.raw.kind = "doc"
    /\ LET ann == req.raw.ann
           hasLeft == leftDelimAnnotation \in DOMAIN ann
           hasRight == rightDelimAnnotation \in DOMAIN ann
       IN \/ hasLeft # hasRight
          \/ hasLeft /\ ann[leftDelimAnnotation] = <<>>
          \/ hasRight /\ ann[rightDelimAnnotation] = <<>>

ForbiddenPath(path) ==
    \/ path = <<"/", "metadata", "/", "annotations", "/",
                "kubectl.kubernetes.io", "~", "1", "last-applied-configuration">>
    \/ HasPrefix(path, <<"/", "metadata", "/", "annotations", "/", "quack.pusher.com">>)

UnderStatus(path) == HasPrefix(path, <<"/", "status">>)

Rank(p) ==
    CASE p = "Idle" -> 0
      [] p = "Received" -> 1
      [] p = "Filtered" -> 2
      [] p = "Gated" -> 3
      [] p = "Valued" -> 4
      [] p = "Delimited" -> 5
      [] p = "Sanitized" -> 6
      [] p = "Rendered" -> 7
      [] p = "Diffed" -> 8
      [] OTHER -> 9

-----------------------------------------------------------------------------
(* The claims *)

\* C1: whatever the number of annotations under the reserved prefix, the
\* template input getTemplateInput returns, which Admit hands to
\* renderTemplate, holds no annotation key under the reserved prefix.
C1_TemplateInputHasNoReservedKey ==
    pc = "Sanitized" => ReservedKeys(templateInput) = {}

\* C2: the patch createPatch returns, and so the patch of every Allowed
\* response, holds no operation at the last-applied-configuration path and
\* none whose path begins with the reserved annotation prefix.
C2_PatchHasNoForbiddenPath ==
    /\ pc \in {"Diffed", "Responded"} =>
         \A i \in 1..Len(patchBytes) : ~ForbiddenPath(patchBytes[i].path)
    /\ \A i \in 1..Len(resp.patch) : ~ForbiddenPath(resp.patch[i].path)

\* C2: an Allowed response with a patch, made from a diff that held an
\* operation at the last-applied-configuration path and one under the
\* reserved prefix.
C2_Witness ==
    /\ pc = "Responded"
    /\ resp.allowed
    /\ resp.patch # <<>>
    /\ \E i \in 1..Len(patch) : patch[i].path = lastAppliedConfigPath
    /\ \E i \in 1..Len(patch) : HasPrefix(patch[i].path, quackAnnotationPrefix)

\* C3: a create or update request that passes the gate and has one delimiter
\* annotation without the other, or an empty one, is never sanitized,
\* rendered or diffed, and its response is Denied, without a patch.
C3_InvalidDelimsDenied ==
    (PassesGate /\ DelimsInvalid) =>
        /\ pc \notin {"Delimited", "Sanitized", "Rendered", "Diffed"}
        /\ pc = "Responded" =>
             ~resp.allowed /\ resp.result.set /\ resp.patch = <<>> /\ resp.patchType = ""

\* C3: getDelims refused a request with the left delimiter alone.
C3_Witness ==
    /\ pc = "Responded"
    /\ failed = "getDelims"
    /\ PassesGate
    /\ leftDelimAnnotation \in DOMAIN req.raw.ann
    /\ rightDelimAnnotation \notin DOMAIN req.raw.ann
    /\ ~resp.allowed

\* C4: the response to a request one of whose steps failed is Denied and
\* carries a message that is not empty.
C4_DenyCarriesMessage ==
    (pc = "Responded" /\ failed # "") =>
        ~resp.allowed /\ resp.result.set /\ resp.result.message # <<>>

\* C5: a response is Allowed only for a request that was gated out or all of
\* whose steps succeeded; a request one of whose steps returned an error is
\* Denied; and no step is taken twice for a request.
C5_AllowedOnlyOnSkipOrSuccess ==
    /\ [](pc = "Responded" =>
            /\ failed # "" => ~resp.allowed
            /\ resp.allowed =>
                 \/ GatedOut
                 \/ /\ failed = ""
                    /\ values \in ValuesMaps
                    /\ ~DelimsInvalid
                    /\ req.raw.kind = "doc"
                    /\ templateInput.kind = "doc"
                    /\ output.kind = "doc")
    /\ [][pc' # pc => (Rank(pc') > Rank(pc) \/ pc' = "Idle")]_vars

\* C5: one Allowed response after every step succeeded, with a patch.
C5_Witness ==
    /\ pc = "Responded"
    /\ resp.allowed
    /\ ~GatedOut
    /\ failed = ""
    /\ resp.patch # <<>>

\* C6: the response to a gated-out request is Allowed, with no patch, no
\* patch type and no result, and the values source was not read for it.
C6_GatedOutAllowedNoPatch ==
    (pc = "Responded" /\ GatedOut) =>
        /\ resp = [allowed |-> TRUE, patch |-> <<>>, patchType |-> "", result |-> NoResult]
        /\ values = NoValues
        /\ failed = ""

\* C6: a create or update of a manifest with a template expression, skipped
\* for want of the required annotation.
C6_Witness ==
    /\ pc = "Responded"
    /\ req.operation \in {"CREATE", "UPDATE"}
    /\ GatedOut
    /\ req.raw.host = TemplatedCluster
    /\ resp.allowed

\* C7: for an object with no annotation under the reserved prefix and no
\* status, getTemplateInput returns a document, equal to the object.
C7_NothingToRemoveReturnsObject ==
    (pc = "Sanitized" /\ ReservedKeys(req.raw) = {} /\ ~req.raw.status.present) =>
        templateInput.kind = "doc" /\ templateInput = req.raw

\* C8: a create or update of {"metadata":{"annotations":{}},"host":
\* "{{- .Cluster -}}.example.com"} with the values {Cluster: alpha} and no
\* required annotation is Allowed with the patch that replaces /host by
\* "alpha.example.com".
C8_EndToEndHostPatch ==
    ( /\ pc = "Responded"
      /\ req.operation \in {"CREATE", "UPDATE"}
      /\ hook.RequiredAnnotation = <<>>
      /\ req.raw = [kind |-> "doc", ann |-> EmptyAnnotations,
                    host |-> <<"{{", "- ", ".Cluster", " -", "}}", ".example.com">>,
                    status |-> NoStatus]
      /\ values = [n \in {"Cluster"} |-> <<"alpha">>] ) =>
        /\ resp.allowed
        /\ resp.patchType = "JSONPatch"
        /\ resp.patch = << [op |-> "replace", path |-> <<"/", "host">>,
                            value |-> <<"alpha", ".example.com">>] >>

\* C9: the template input of an object with a status at its root has no
\* status.
C9_TemplateInputHasNoStatus ==
    (pc = "Sanitized" /\ req.raw.status.present) => ~templateInput.status.present

\* C10: the patch of the response to a request whose object has a status
\* holds no operation at /status or under it.
C10_PatchLeavesStatusAlone ==
    (pc = "Responded" /\ req.raw.status.present) =>
        \A i \in 1..Len(resp.patch) : ~UnderStatus(resp.patch[i].path)

\* ResolveDelims has acted for the request: getDelims has returned.
DelimsResolved ==
    \/ pc \in {"Delimited", "Sanitized", "Rendered", "Diffed"}
    \/ pc = "Responded" /\ values \in ValuesMaps

\* C11: when getDelims has returned for a manifest, then with neither
\* delimiter annotation it gave the zero pair and no error; with both, and
\* neither empty, it gave that pair and no error; with one alone, or with one
\* of the two empty, it gave an error and the zero pair.
C11_GetDelimsCases ==
    (DelimsResolved /\ req.raw.kind = "doc") =>
        LET ann == req.raw.ann
            hasLeft == leftDelimAnnotation \in DOMAIN ann
            hasRight == rightDelimAnnotation \in DOMAIN ann
        IN  /\ (~hasLeft /\ ~hasRight) =>
                  failed # "getDelims" /\ delims = ZeroDelims
            /\ (hasLeft /\ hasRight /\ ann[leftDelimAnnotation] # <<>>
                   /\ ann[rightDelimAnnotation] # <<>>) =>
                  /\ failed # "getDelims"
                  /\ delims = [left |-> ann[leftDelimAnnotation],
                               right |-> ann[rightDelimAnnotation]]
            /\ DelimsInvalid =>
                  /\ failed = "getDelims"
                  /\ pc = "Responded"
                  /\ delims = ZeroDelims

\* C11: getDelims refused a manifest with both delimiter annotations, the
\* right one empty.
C11_Witness ==
    /\ pc = "Responded"
    /\ failed = "getDelims"
    /\ delims = ZeroDelims
    /\ leftDelimAnnotation \in DOMAIN req.raw.ann
    /\ rightDelimAnnotation \in DOMAIN req.raw.ann
    /\ req.raw.ann[leftDelimAnnotation] # <<>>
    /\ req.raw.ann[rightDelimAnnotation] = <<>>

\* C11: getDelims returned the pair of a manifest with both annotations.
C11_WitnessPair ==
    /\ pc = "Delimited"
    /\ delims = [left |-> <<"[[">>, right |-> <<"]]">>]

\* C12: when requestHasAnnotation has returned for a create or update, it
\* returned true with an empty required annotation, and otherwise returned
\* true exactly for a manifest with the required annotation among the keys
\* of its annotations, whatever the value under that key.
C12_RequestHasAnnotation ==
    (IsCreateOrUpdate(req.operation) /\ Rank(pc) >= 3) =>
        (annototationPresent <=>
            \/ hook.RequiredAnnotation = <<>>
            \/ /\ req.raw.kind = "doc"
               /\ hook.RequiredAnnotation \in DOMAIN req.raw.ann)

\* C12: requestHasAnnotation returned true for a required annotation with an
\* empty value.
C12_Witness ==
    /\ pc = "Gated"
    /\ annototationPresent
    /\ hook.RequiredAnnotation # <<>>
    /\ hook.RequiredAnnotation \in DOMAIN req.raw.ann
    /\ req.raw.ann[hook.RequiredAnnotation] = <<>>

\* C13: renderTemplate, for the default delimiters and for a pair of the
\* request, on a document whose host is the left delimiter, "- .Cluster -"
\* and the right delimiter, returns a document whose host is exactly the
\* value of Cluster in the values map.
C13_TrimmedExpressionGivesValue ==
    (/\ pc = "Rendered"
     /\ templateInput.kind = "doc"
     /\ templateInput.host = leftDelimOf(delims) \o <<"- ", ".Cluster", " -">> \o rightDelimOf(delims)) =>
        /\ output.kind = "doc"
        /\ output.host = values["Cluster"]
        /\ output.status.present = templateInput.status.present
        /\ DOMAIN output.ann = DOMAIN templateInput.ann

\* C14: renderTemplate writes the value of Cluster as it stands in the values
\* map at the place of the expression, whatever characters it holds.
C14_ValueInsertedRaw ==
    (/\ pc = "Rendered"
     /\ delims = ZeroDelims
     /\ templateInput.kind = "doc"
     /\ templateInput.host = TemplatedCluster) =>
        output.host = values["Cluster"] \o <<".example.com">>

\* A manifest whose host looks up a name the values map does not have.
LooksUpMissingName ==
    /\ req.raw.kind = "doc"
    /\ req.raw.host = <<"{{", ".Missing", "}}">>
    /\ leftDelimAnnotation \notin DOMAIN req.raw.ann
    /\ rightDelimAnnotation \notin DOMAIN req.raw.ann

\* C15: renderTemplate on an expression that looks up a name the values map
\* does not have returns no error and writes nothing at its place, and the
\* response to a request with such an object, whose values were read, is
\* Allowed.
C15_MissingNameRendersEmptyAndAllowed ==
    /\ (pc = "Sanitized" /\ LooksUpMissingName /\ templateInput.kind = "doc") =>
          LET r == renderTemplate(templateInput, values, delims) IN
          r.err = NoError /\ r.out.host = <<>>
    /\ (pc = "Responded" /\ PassesGate /\ values \in ValuesMaps /\ LooksUpMissingName) =>
          resp.allowed

\* A manifest without a template expression: a plain host, no status, and
\* no annotations but the required one and the two delimiters.
HasNoTemplateExpression ==
    /\ req.raw.kind = "doc"
    /\ req.raw.host = <<"plain.example.com">>
    /\ req.raw.status = NoStatus
    /\ DOMAIN req.raw.ann \subseteq
          {requiredAnnotationKey, leftDelimAnnotation, rightDelimAnnotation}

\* C16: for an object without a template expression, with annotations under
\* the reserved prefix or without, whose values were read and whose
\* delimiters are valid, createPatch returns an empty list of operations and
\* the response is Allowed, with no patch, no patch type and no result.
C16_NoChangeAllowedWithoutPatch ==
    (PassesGate /\ HasNoTemplateExpression /\ ~DelimsInvalid /\ values \in ValuesMaps) =>
        /\ pc = "Diffed" => patchBytes = <<>>
        /\ pc = "Responded" =>
             resp = [allowed |-> TRUE, patch |-> <<>>, patchType |-> "", result |-> NoResult]

\* C17: the response of a second call of Admit with the same operation, the
\* same object and the same values is the response of the first: the same
\* outcome, and a patch of the same bytes.
C17_SameRequestSameResponse ==
    (pc = "Responded" /\ previous.set /\ previous.values = values) =>
        resp = previous.resp

\* The lists of ignored paths a caller supplies: none, the path of an
\* annotation, the path of a field.
IgnoredPathLists ==
    { <<>>, << lastAppliedConfigPath >>, << <<"/", "host">> >> }

\* path is one of ignoredPaths or lies under one of them.
UnderIgnoredPath(ignoredPaths, path) ==
    \E i \in 1..Len(ignoredPaths) :
        path = ignoredPaths[i] \/ HasPrefix(path, ignoredPaths[i] \o <<"/">>)

\* C18: whatever list of ignored paths the caller supplies, the patch
\* createPatch returns holds no operation at one of them or under one.
C18_PatchHasNoIgnoredPath ==
    pc \in {"Diffed", "Responded"} =>
        \A ignoredPaths \in IgnoredPathLists :
            \A i \in 1..Len(patchBytes) :
                ~UnderIgnoredPath(ignoredPaths, patchBytes[i].path)

\* C19: with the path of the last-applied-configuration annotation as the
\* one ignored path, the template input getTemplateInput returns is the
\* object without that annotation and without the annotations under the
\* reserved prefix; it is the object without the latter alone, and not nil,
\* when the object has no such annotation.
C19_TemplateInputHasNoIgnoredPath ==
    pc = "Sanitized" =>
        LET ignoredPaths == << lastAppliedConfigPath >>
            kept == { k \in DOMAIN req.raw.ann :
                        /\ ~HasPrefix(k, quackKeyPrefix)
                        /\ ~UnderIgnoredPath(ignoredPaths, makePath(annotationsPath, k)) }
        IN  /\ templateInput.kind = "doc"
            /\ DOMAIN templateInput.ann = kept
            /\ \A k \in kept : templateInput.ann[k] = req.raw.ann[k]
            /\ templateInput.host = req.raw.host

\* A response as Admit may return it: Allowed, with a patch or without, and
\* no result; or Denied, with a result and no patch.
TerminalResponse(r) ==
    \/ r.allowed /\ ~r.result.set /\ (r.patch = <<>> <=> r.patchType = "")
    \/ ~r.allowed /\ r.result.set /\ r.patch = <<>> /\ r.patchType = ""

\* C20: every request Admit has received is responded to; the response is
\* Allowed or Denied with a result, never Denied with a patch; nothing of
\* a response is there before Admit responds, and the response, once made,
\* stays as it is until Admit has returned it.
C20_OneTerminalResponse ==
    /\ (pc = "Received") ~> (pc = "Responded")
    /\ [](pc = "Responded" => TerminalResponse(resp))
    /\ [](pc # "Responded" => resp = NewResponse)
    /\ [][pc = "Responded" => (pc' = "Idle" /\ resp' = NewResponse)]_vars

\* C20: the three ways to a response: a skip, a failing step, and success
\* with a patch.
C20_Witness ==
    /\ pc = "Responded"
    /\ ~resp.allowed
    /\ resp.result.set
    /\ failed = "renderTemplate"

C20_WitnessSkip ==
    pc = "Responded" /\ resp.allowed /\ GatedOut

C20_WitnessPatch ==
    pc = "Responded" /\ resp.allowed /\ resp.patchType = "JSONPatch"

\* The operations of a diff createPatch is meant to keep.
KeptOperation(op) == ~ForbiddenPath(op.path)

\* C22: the patch createPatch returns is the sequence of the operations of
\* the diff with those at the last-applied-configuration path and under the
\* reserved annotation prefix taken out: the others are all there, as they
\* were, in the order the diff gave them.
C22_PatchIsFilteredDiff ==
    pc = "Diffed" => patchBytes = SelectSeq(patch, KeptOperation)

\* C22: createPatch kept two operations of a diff and dropped one that
\* stood before the last of them.
C22_Witness ==
    /\ pc = "Diffed"
    /\ Len(patchBytes) >= 2
    /\ \E i, j \in 1..Len(patch) :
         i < j /\ ForbiddenPath(patch[i].path) /\ ~ForbiddenPath(patch[j].path)

\* C23: the template input getTemplateInput returns has every annotation of
\* the object whose key is not under the reserved prefix, with the value it
\* had, and the object's host as it was.
C23_TemplateInputKeepsTheRest ==
    pc = "Sanitized" =>
        /\ \A k \in (DOMAIN req.raw.ann) \ ReservedKeys(req.raw) :
              /\ k \in DOMAIN templateInput.ann
              /\ templateInput.ann[k] = req.raw.ann[k]
        /\ templateInput.host = req.raw.host

\* C21: with two calls of Admit under way at once, in whatever order their
\* steps are taken, the response of each call is a response Admit returns
\* for that call's request and values alone; no step writes the hook, and a
\* step of the call that runs leaves the other call's variables alone.
C21_CallsDoNotInterfere ==
    /\ [](pc = "Responded" =>
            resp \in Admit(hook, req.operation, req.raw, values))
    /\ [](other.pc = "Responded" =>
            other.resp \in Admit(hook, other.req.operation, other.req.raw, other.values))
    /\ [][hook' = hook]_vars
    /\ [][other' # other => other' = RunningCall]_vars

\* C21: both calls have responded, to different requests, one Denied and
\* one Allowed with a patch, and the call that responded first began last.
C21_Witness ==
    /\ pc = "Responded"
    /\ other.pc = "Responded"
    /\ req # other.req
    /\ ~resp.allowed
    /\ other.resp.allowed
    /\ other.resp.patch # <<>>

====
